---- MODULE Spec2Model ----
(***************************************************************************)
(* Model of src/town_generator/area.py: the Area entity, the process-wide  *)
(* registry (Area.members, Area._last_id) and Area.split.                  *)
(*                                                                         *)
(* Geometry.  Polygons are axis-aligned rectangles and directions are the  *)
(* four cardinal bearings, so that every shapely operation split() calls   *)
(* (area, centroid, minimum rotated rectangle, ray/boundary intersection,  *)
(* distance, split by a line) has an exact value.  Lengths are fixed-point *)
(* numbers with FracBits fractional bits (1 length unit = Scale), areas    *)
(* are products of two lengths (1 square unit = Scale * Scale); this is    *)
(* the finite-precision stand-in for the IEEE doubles of the program.      *)
(***************************************************************************)
EXTENDS Integers, Sequences, FiniteSets, TLC

VARIABLES heap, members, last_id, call, pre

vars == <<heap, members, last_id, call, pre>>

\* ---------------------------------------------------------------- bounds
MaxAreas == 4
MaxDestroyed == 1
FracBits == 4

Scale == 2 ^ FracBits
SquareUnit == Scale * Scale

\* -------------------------------------------------------------- Category
GARDEN == 8
HOUSE == 10

\* 1 meter^2 error accepted (the while condition of split)
Tolerance == 1

\* ------------------------------------------------------------- geometry
Rect(X, Y, ccw) ==
    [xmin |-> 0, ymin |-> 0, xmax |-> X * Scale, ymax |-> Y * Scale, ccw |-> ccw]

NoPolygon == [xmin |-> 0, ymin |-> 0, xmax |-> 0, ymax |-> 0, ccw |-> TRUE]

Abs(x) == IF x < 0 THEN 0 - x ELSE x
Max(a, b) == IF a > b THEN a ELSE b
Min(a, b) == IF a < b THEN a ELSE b

\* polygon.area
PolyArea(p) == (p.xmax - p.xmin) * (p.ymax - p.ymin)

\* polygon.exterior.is_ccw
is_ccw(p) == p.ccw

\* Polygon(coords[::-1]): the same ring walked the other way
Reversed(p) == [p EXCEPT !.ccw = ~p.ccw]

\* polygon.boundary.coords: the closed ring, in the polygon's winding
Coords(p) ==
    IF p.ccw
    THEN << <<p.xmin, p.ymin>>, <<p.xmax, p.ymin>>, <<p.xmax, p.ymax>>,
            <<p.xmin, p.ymax>>, <<p.xmin, p.ymin>> >>
    ELSE << <<p.xmin, p.ymin>>, <<p.xmin, p.ymax>>, <<p.xmax, p.ymax>>,
            <<p.xmax, p.ymin>>, <<p.xmin, p.ymin>> >>

\* np.sqrt, rounded down to the fixed-point grid: the root lies in lo..hi-1
RECURSIVE SqrtBetween(_, _, _)
SqrtBetween(n, lo, hi) ==
    IF hi - lo <= 1 THEN lo
    ELSE LET mid == (lo + hi) \div 2
         IN  IF mid * mid <= n THEN SqrtBetween(n, mid, hi) ELSE SqrtBetween(n, lo, mid)

\* np.sqrt(np.sum(np.square(pts[2] - pts[0]))) over the corners of
\* polygon.minimum_rotated_rectangle, rounded down to the fixed-point grid
Diameter(p) ==
    LET dx == p.xmax - p.xmin
        dy == p.ymax - p.ymin
    IN  SqrtBetween(dx * dx + dy * dy, 0, dx + dy + 1)

\* polygon.centroid
Centroid(p) == <<(p.xmin + p.xmax) \div 2, (p.ymin + p.ymax) \div 2>>

\* cos and sin of np.deg2rad(90 - direction) for the cardinal bearings
Cos(direction) == CASE direction = 90 -> 1 [] direction = 270 -> 0 - 1 [] OTHER -> 0
Sin(direction) == CASE direction = 0 -> 1 [] direction = 180 -> 0 - 1 [] OTHER -> 0

\* path.intersection(polygon.boundary), last point along the ray
\* (<<>> when the ray does not reach the boundary)
RayHit(p, start, end) ==
    CASE end[1] > start[1] /\ start[1] <= p.xmax /\ p.xmax <= end[1] -> <<p.xmax, start[2]>>
      [] end[1] < start[1] /\ end[1] <= p.xmin /\ p.xmin <= start[1] -> <<p.xmin, start[2]>>
      [] end[2] > start[2] /\ start[2] <= p.ymax /\ p.ymax <= end[2] -> <<start[1], p.ymax>>
      [] end[2] < start[2] /\ end[2] <= p.ymin /\ p.ymin <= start[2] -> <<start[1], p.ymin>>
      [] OTHER -> <<>>

\* LineString((pt1, pt2)).distance(pt) < 1E-6 on the fixed-point grid
OnSegment(pt, a, b) ==
    \/ a[1] = b[1] /\ pt[1] = a[1] /\ Min(a[2], b[2]) <= pt[2] /\ pt[2] <= Max(a[2], b[2])
    \/ a[2] = b[2] /\ pt[2] = a[2] /\ Min(a[1], b[1]) <= pt[1] /\ pt[1] <= Max(a[1], b[1])

\* for pt1, pt2 in zip(pts[:-1], pts[1:]): break on the edge holding the
\* point; the last pair is left in pt1, pt2 when no edge matches
HitEdge(p, pt) ==
    LET pts  == Coords(p)
        hits == {i \in 1..(Len(pts) - 1) : OnSegment(pt, pts[i], pts[i + 1])}
        i    == IF hits = {} THEN Len(pts) - 1
                ELSE CHOOSE k \in hits : \A m \in hits : k <= m
    IN  <<pts[i], pts[i + 1]>>

\* squared pt.distance(polygon)
Dist2(pt, p) ==
    LET dx == Max(0, Max(p.xmin - pt[1], pt[1] - p.xmax))
        dy == Max(0, Max(p.ymin - pt[2], pt[2] - p.ymax))
    IN  dx * dx + dy * dy

\* the line crosses the polygon from side to side
Crosses(p, cut) ==
    \/ /\ cut.a[2] = cut.b[2]
       /\ p.ymin < cut.a[2] /\ cut.a[2] < p.ymax
       /\ Min(cut.a[1], cut.b[1]) <= p.xmin /\ p.xmax <= Max(cut.a[1], cut.b[1])
    \/ /\ cut.a[1] = cut.b[1]
       /\ p.xmin < cut.a[1] /\ cut.a[1] < p.xmax
       /\ Min(cut.a[2], cut.b[2]) <= p.ymin /\ p.ymax <= Max(cut.a[2], cut.b[2])

\* the two polygons on either side of a crossing line; the polygonizer
\* behind ops.split builds its shells clockwise
Sides(p, cut) ==
    IF cut.a[2] = cut.b[2]
    THEN << [p EXCEPT !.ymax = cut.a[2], !.ccw = FALSE],
            [p EXCEPT !.ymin = cut.a[2], !.ccw = FALSE] >>
    ELSE << [p EXCEPT !.xmax = cut.a[1], !.ccw = FALSE],
            [p EXCEPT !.xmin = cut.a[1], !.ccw = FALSE] >>

\* ops.split(polygon, cut): every collection the library may hand back.
\* A crossing line gives the two sides, in either order; a line that
\* misses gives no piece (what split() tests for) or the polygon itself
\* (what shapely documents).
ops_split(p, cut) ==
    IF Crosses(p, cut)
    THEN {Sides(p, cut), <<Sides(p, cut)[2], Sides(p, cut)[1]>>}
    ELSE {<<>>, <<p>>}

\* ------------------------------------------------------ the Area entity
\* get_id without the increment
get_id_stale(last) == last

\* Area.get_id: Area._last_id += 1; return Area._last_id
get_id(last) == last + 1

\* Area.__init__ on the process state (h: every Area ever constructed, in
\* construction order; m: Area.members; last: Area._last_id)
Area_init(h, m, last, polygon, category, sub_areas) ==
    LET id == get_id(last)
    IN  [heap    |-> Append(h, [id |-> id, polygon |-> polygon,
                                category |-> category, sub_areas |-> sub_areas]),
         members |-> Append(m, Len(h) + 1),
         last_id |-> id,
         ref     |-> Len(h) + 1]

\* Area.members.remove(self), the ValueError of an absent entry swallowed
list_remove(m, a) ==
    LET at == {i \in 1..Len(m) : m[i] = a}
    IN  IF at = {} THEN m
        ELSE LET k == CHOOSE i \in at : \A j \in at : i <= j
             IN  [i \in 1..(Len(m) - 1) |-> IF i < k THEN m[i] ELSE m[i + 1]]

\* a polygon property with a setter
polygon_setter_assigns(area, value) ==
    [raised |-> FALSE, area |-> [area EXCEPT !.polygon = value]]

\* self.polygon = value: polygon is a read-only property (no setter), the
\* assignment raises AttributeError and the Area keeps its polygon
polygon_setter(area, value) == [raised |-> TRUE, area |-> area]

\* if pt_intersection.distance(res[0]) > pt_intersection.distance(res[1]):
\*     res = MultiPolygon([res[1], res[0]])
closer_first(pt, res) ==
    IF Dist2(pt, res[1]) > Dist2(pt, res[2]) THEN <<res[2], res[1]>> ELSE <<res[1], res[2]>>

\* the fragments appended to the sub-areas instead of replacing them
extend_sub_areas(old, area0, area1, inplace) ==
    IF inplace THEN old \o <<area0, area1>> ELSE old

\* if inplace: self._sub_areas = [area0, area1]
assign_sub_areas(old, area0, area1, inplace) ==
    IF inplace THEN <<area0, area1>> ELSE old

\* ------------------------------------------------------------- inputs
InputPolygons ==
    {Rect(20, 40, TRUE), Rect(20, 40, FALSE), Rect(8, 6, TRUE), Rect(1, 1, TRUE)}

\* percentage, as numerator and denominator
Percentages ==
    {<<0 - 1, 4>>, <<0, 1>>, <<1, 8>>, <<1, 4>>, <<13, 16>>, <<1, 1>>, <<5, 4>>}

Directions == {0, 90, 180, 270}

NewCategories == {GARDEN, HOUSE}

\* ---------------------------------------------------------- the state
IdleCall ==
    [pc |-> "idle", self |-> 0, percentage |-> <<0, 1>>, direction |-> 0,
     inplace |-> FALSE, new_category |-> GARDEN,
     pt_intersection |-> <<>>, pt1 |-> <<>>, pt2 |-> <<>>,
     directory |-> <<>>, orth |-> <<>>, diameter |-> 0, house_area |-> 0,
     width |-> 0, dw |-> 0, res |-> <<>>, tick |-> 0,
     error |-> "", line |-> 0, value |-> <<>>]

NoPre ==
    [area |-> [id |-> 0, polygon |-> NoPolygon, category |-> 0, sub_areas |-> <<>>],
     last_id |-> 0, members |-> <<>>, count |-> 0]

\* the call's arguments, kept with its outcome
Finish(c, pc, error, line, value) ==
    [IdleCall EXCEPT !.pc = pc, !.self = c.self, !.percentage = c.percentage,
                     !.direction = c.direction, !.inplace = c.inplace,
                     !.new_category = c.new_category,
                     !.error = error, !.line = line, !.value = value]

\* sub_areas of a direct construction: none, or the Area constructed last
SubAreaLists == IF heap = <<>> THEN {<<>>} ELSE {<<>>, <<Len(heap)>>}

Init ==
    /\ heap = <<>>
    /\ members = <<>>
    /\ last_id = 0
    /\ call = IdleCall
    /\ pre = NoPre

\* Area(polygon, category, sub_areas)
NewArea(polygon, category, sub_areas) ==
    /\ call.pc = "idle"
    /\ Len(heap) < MaxAreas
    /\ LET n == Area_init(heap, members, last_id, polygon, category, sub_areas)
       IN  /\ heap' = n.heap
           /\ members' = n.members
           /\ last_id' = n.last_id
    /\ UNCHANGED <<call, pre>>

\* Area.__del__
Destroy(a) ==
    /\ call.pc = "idle"
    /\ a \in 1..Len(heap)
    /\ Len(heap) < MaxAreas
    /\ Len(heap) - Len(members) < MaxDestroyed
    /\ members' = list_remove(members, a)
    /\ UNCHANGED <<heap, last_id, call, pre>>

\* the edge the ray leaves through, and the frame of the cut lines
EdgeFrame(c, hit, edge, D) ==
    LET pt1  == edge[1]
        pt2  == edge[2]
        dist == Abs(pt2[1] - pt1[1]) + Abs(pt2[2] - pt1[2])
        dx   == (pt2[1] - pt1[1]) \div dist
        dy   == (pt2[2] - pt1[2]) \div dist
    IN  [c EXCEPT !.pt_intersection = hit, !.pt1 = pt1, !.pt2 = pt2,
                  !.directory = <<dx, dy>>, !.orth = <<0 - dy, dx>>,
                  !.diameter = D, !.width = D \div 2, !.dw = D \div 2]

RayFrame(c, p, hit, D) ==
    IF hit = <<>>
    THEN Finish(c, "raised", "IndexError", 138, <<>>)
    ELSE EdgeFrame([c EXCEPT !.pc = "loop", !.res = <<p>>,
                             !.house_area = (PolyArea(p) * c.percentage[1])
                                               \div c.percentage[2]],
                   hit, HitEdge(p, hit), D)

\* lines 128-158 of split(): the ray, the edge it leaves through, the
\* first width and step
Frame(c, p, start, D) ==
    RayFrame(c, p,
             RayHit(p, start, <<start[1] + D * Cos(c.direction),
                                start[2] + D * Sin(c.direction)>>),
             D)

\* lines 125-127 of split(), then the frame
Normalized(c, area, norm) ==
    IF norm.raised
    THEN [area |-> norm.area, call |-> Finish(c, "raised", "AttributeError", 127, <<>>)]
    ELSE [area |-> norm.area,
          call |-> Frame(c, norm.area.polygon, Centroid(norm.area.polygon),
                         Diameter(norm.area.polygon))]

\* split(), from the call to the first test of the while condition
SplitBegin(a, percentage, direction) ==
    /\ call.pc = "idle"
    /\ a \in 1..Len(heap)
    /\ Len(heap) + 2 <= MaxAreas
    /\ pre' = [area |-> heap[a], last_id |-> last_id, members |-> members,
               count |-> Len(heap)]
    /\ UNCHANGED <<members, last_id>>
    /\ LET c0 == [IdleCall EXCEPT !.self = a, !.percentage = percentage,
                                  !.direction = direction]
       IN  IF ~(percentage[1] > 0)
           THEN /\ call' = Finish(c0, "raised", "AssertionError", 124, <<>>)
                /\ UNCHANGED heap
           ELSE LET n == Normalized(c0, heap[a],
                                    IF is_ccw(heap[a].polygon)
                                    THEN [raised |-> FALSE, area |-> heap[a]]
                                    ELSE polygon_setter(heap[a], Reversed(heap[a].polygon)))
                IN  /\ call' = n.call
                    /\ heap' = [heap EXCEPT ![a] = n.area]

\* the while condition with twice the tolerance
NotWithinTwiceTolerance(c) ==
    Abs(PolyArea(c.res[1]) - c.house_area) > 2 * Tolerance * SquareUnit

\* while abs(res[0].area - house_area) > 1
NotWithinTolerance(c) ==
    Abs(PolyArea(c.res[1]) - c.house_area) > Tolerance * SquareUnit

\* LineString([pt1 + width * orth - diameter * directory,
\*             pt2 + width * orth + diameter * directory])
CutLine(c) ==
    [a |-> <<c.pt1[1] + c.width * c.orth[1] - c.diameter * c.directory[1],
             c.pt1[2] + c.width * c.orth[2] - c.diameter * c.directory[2]>>,
     b |-> <<c.pt2[1] + c.width * c.orth[1] + c.diameter * c.directory[1],
             c.pt2[2] + c.width * c.orth[2] + c.diameter * c.directory[2]>>]

\* lines 165-177: the loop body after ops.split handed back lib
LoopBody(c, lib, dw) ==
    IF Len(lib) = 0
    THEN [c EXCEPT !.res = lib, !.dw = dw, !.width = c.width - dw, !.tick = 1 - c.tick]
    ELSE IF Len(lib) < 2
    THEN Finish(c, "raised", "IndexError", 170, <<>>)
    ELSE LET res == closer_first(c.pt_intersection, lib)
         IN  [c EXCEPT !.res = res, !.dw = dw,
                       !.width = IF PolyArea(res[1]) > c.house_area
                                 THEN c.width - dw ELSE c.width + dw,
                       !.tick = 1 - c.tick]

\* one test of the while condition that does not leave the loop
\* normally, and the pass through the loop body it starts
SplitIterate ==
    /\ call.pc = "loop"
    /\ UNCHANGED <<heap, members, last_id, pre>>
    /\ IF Len(call.res) = 0
       THEN call' = Finish(call, "raised", "IndexError", 159, <<>>)
       ELSE /\ NotWithinTolerance(call)
            /\ \E lib \in ops_split(heap[call.self].polygon, CutLine(call)) :
                 call' = LoopBody(call, lib, call.dw \div 2)

\* the while condition found false, and lines 178-183.  inplace and
\* new_category are drawn here, where split() first reads them.
SplitMaterialize(inplace, new_category) ==
    /\ call.pc = "loop"
    /\ Len(call.res) > 0
    /\ ~NotWithinTolerance(call)
    /\ pre' = pre
    /\ LET self == call.self
           c  == [call EXCEPT !.inplace = inplace, !.new_category = new_category]
           n0 == Area_init(heap, members, last_id,
                           call.res[1], heap[self].category, <<>>)
           n1 == Area_init(n0.heap, n0.members, n0.last_id,
                           call.res[2], new_category, <<>>)
       IN  IF Len(call.res) < 2
           THEN /\ heap' = n0.heap
                /\ members' = n0.members
                /\ last_id' = n0.last_id
                /\ call' = Finish(c, "raised", "IndexError", 179, <<>>)
           ELSE /\ heap' = [n1.heap EXCEPT ![self].sub_areas =
                               assign_sub_areas(@, n0.ref, n1.ref, inplace)]
                /\ members' = n1.members
                /\ last_id' = n1.last_id
                /\ call' = Finish(c, "returned", "", 0,
                                  IF inplace THEN <<>> ELSE <<n0.ref, n1.ref>>)

\* the caller takes the outcome of the call
Return ==
    /\ call.pc \in {"returned", "raised"}
    /\ call' = IdleCall
    /\ pre' = NoPre
    /\ UNCHANGED <<heap, members, last_id>>

Next ==
    \/ \E polygon \in InputPolygons, sub_areas \in SubAreaLists :
         NewArea(polygon, HOUSE, sub_areas)
    \/ \E a \in 1..Len(heap) : Destroy(a)
    \/ \E a \in 1..Len(heap), percentage \in Percentages, direction \in Directions :
         SplitBegin(a, percentage, direction)
    \/ SplitIterate
    \/ \E inplace \in BOOLEAN, new_category \in NewCategories :
         SplitMaterialize(inplace, new_category)
    \/ Return

Spec == Init /\ [][Next]_vars

\* the interpreter keeps running a call it has started
FairSpec ==
    /\ Spec
    /\ WF_vars(SplitIterate)
    /\ WF_vars(\E inplace \in BOOLEAN, new_category \in NewCategories :
                  SplitMaterialize(inplace, new_category))

\* ------------------------------------------------------------- claims
Finished == call.pc \in {"returned", "raised"}

\* percentage strictly between 0 and 1
InOpenUnitInterval(pct) == pct[1] > 0 /\ pct[1] < pct[2]

\* percentage * area(P)
TargetArea(p, pct) == (PolyArea(p) * pct[1]) \div pct[2]

\* the fragments of the call that has returned: the two Areas constructed last
First == pre.count + 1
Second == pre.count + 2

\* area of the symmetric difference of two rectangles
SymDiffArea(p, q) ==
    LET w == Max(0, Min(p.xmax, q.xmax) - Max(p.xmin, q.xmin))
        h == Max(0, Min(p.ymax, q.ymax) - Max(p.ymin, q.ymin))
    IN  PolyArea(p) + PolyArea(q) - 2 * w * h

\* the strip along the northern edge holding exactly percentage of the area
ExactNorthStrip(p, pct) ==
    [p EXCEPT !.ymin = p.ymax - ((p.ymax - p.ymin) * pct[1]) \div pct[2]]

\* the first fragment is a strip along the whole northern edge of p
AlongNorthernEdge(f, p) ==
    /\ f.xmin = p.xmin /\ f.xmax = p.xmax
    /\ f.ymax = p.ymax /\ f.ymin > p.ymin

\* C1: for a valid (counter-clockwise) polygon and a percentage strictly
\* between 0 and 1, split ends with a first fragment whose area is within
\* 1 square unit of percentage * area(P), also when the search loop is
\* never entered.
C1_FirstFragmentWithinTolerance ==
    (Finished /\ InOpenUnitInterval(call.percentage) /\ is_ccw(pre.area.polygon))
        => /\ call.pc = "returned"
           /\ Abs(PolyArea(heap[First].polygon)
                  - TargetArea(pre.area.polygon, call.percentage))
                 <= Tolerance * SquareUnit

\* C2 (as stated): split(p, 0, inplace=False) on a rectangle returns as
\* first fragment the strip along the northern edge, whose symmetric
\* difference with the exact strip has area below 1.
C2_NorthStripBelowOne ==
    (call.pc = "returned" /\ call.direction = 0 /\ ~call.inplace)
        => /\ AlongNorthernEdge(heap[call.value[1]].polygon, pre.area.polygon)
           /\ SymDiffArea(heap[call.value[1]].polygon,
                          ExactNorthStrip(pre.area.polygon, call.percentage))
                 < Tolerance * SquareUnit

\* C2 (amended): split(p, 0, inplace=False) on a rectangle returns as
\* first fragment the strip along the northern edge, whose symmetric
\* difference with the exact strip has area at most 1.
C2_NorthStripAtMostOne ==
    (call.pc = "returned" /\ call.direction = 0 /\ ~call.inplace)
        => /\ AlongNorthernEdge(heap[call.value[1]].polygon, pre.area.polygon)
           /\ SymDiffArea(heap[call.value[1]].polygon,
                          ExactNorthStrip(pre.area.polygon, call.percentage))
                 <= Tolerance * SquareUnit

\* the doctest: [(0,0),(20,0),(20,40),(0,40)] split at 0.25 towards the
\* north gives a first fragment less than 1 off the strip y in [30,40]
C2_Witness ==
    /\ call.pc = "returned" /\ call.direction = 0 /\ ~call.inplace
    /\ pre.area.polygon = Rect(20, 40, TRUE)
    /\ call.percentage = <<1, 4>>
    /\ AlongNorthernEdge(heap[call.value[1]].polygon, pre.area.polygon)
    /\ SymDiffArea(heap[call.value[1]].polygon,
                   [Rect(20, 40, TRUE) EXCEPT !.ymin = 30 * Scale])
          < Tolerance * SquareUnit

\* C3: a split (here of a counter-clockwise polygon) whose percentage is
\* not strictly between 0 and 1 fails at the argument check, the
\* assertion of line 124, and does nothing else.
C3_OutOfRangeRejected ==
    (call.pc # "idle" /\ ~InOpenUnitInterval(call.percentage) /\ is_ccw(pre.area.polygon))
        => (call.pc = "raised" /\ call.error = "AssertionError")

\* C4: every call of split terminates: a search that has started ends,
\* with fragments or with an error.
C4_SplitTerminates == (call.pc = "loop") ~> Finished

\* C5: a successful split with inplace=True returns nothing and leaves
\* sub_areas = [first, second]; with inplace=False it returns (first,
\* second) and leaves sub_areas alone; polygon, category and id of the
\* Area are unchanged, first has the Area's category and second has
\* new_category.
C5_SuccessfulSplitFrame ==
    call.pc = "returned"
        => /\ Len(heap) = pre.count + 2
           /\ call.inplace
                => /\ call.value = <<>>
                   /\ heap[call.self].sub_areas = <<First, Second>>
           /\ ~call.inplace
                => /\ call.value = <<First, Second>>
                   /\ heap[call.self].sub_areas = pre.area.sub_areas
           /\ heap[call.self].polygon = pre.area.polygon
           /\ heap[call.self].category = pre.area.category
           /\ heap[call.self].id = pre.area.id
           /\ heap[First].category = pre.area.category
           /\ heap[Second].category = call.new_category

\* an in-place split has replaced sub-areas the Area already had
C5_Witness ==
    /\ call.pc = "returned" /\ call.inplace
    /\ pre.area.sub_areas # <<>>
    /\ heap[call.self].sub_areas = <<First, Second>>
    /\ call.new_category # pre.area.category

\* C6: when split ends with an error the Area has the sub_areas, the
\* polygon and the category it had before the call.
C6_NoPartialMutation ==
    call.pc = "raised"
        => /\ heap[call.self].sub_areas = pre.area.sub_areas
           /\ heap[call.self].polygon = pre.area.polygon
           /\ heap[call.self].category = pre.area.category

\* split failed while materializing the fragments, the first one built
C6_Witness ==
    /\ call.pc = "raised" /\ call.line = 179
    /\ Len(heap) = pre.count + 1
    /\ pre.area.sub_areas # <<>>

\* C7: Areas constructed later have strictly larger ids, so no two Areas
\* ever constructed share an id, destroyed ones included.
C7_IdsStrictlyIncreasing ==
    /\ \A i, j \in 1..Len(heap) : i < j => heap[i].id < heap[j].id
    /\ \A i \in 1..Len(heap) : heap[i].id <= last_id

\* a split has constructed its two Areas after another Area was destroyed
C7_Witness ==
    /\ call.pc = "returned"
    /\ Len(members) < Len(heap)
    /\ Len(heap) = MaxAreas

\* C8: a split of a clockwise polygon replaces the polygon by its
\* reversed ring and goes on; the normalization raises no error.
C8_ClockwiseNormalized ==
    (call.pc # "idle" /\ ~is_ccw(pre.area.polygon))
        => /\ heap[call.self].polygon = Reversed(pre.area.polygon)
           /\ call.error # "AttributeError"

\* C9: after a cut that yields zero pieces the search goes on: the next
\* step of the call is another pass through the loop, not an error.
C9_ZeroPiecesSearchGoesOn ==
    [][(call.pc = "loop" /\ call.res = <<>>) => call'.pc = "loop"]_vars

\* C10: when split ends with an error (here with a percentage strictly
\* between 0 and 1), Area.members and Area._last_id are what they were
\* before the call.
C10_FailedSplitLeavesRegistry ==
    (call.pc = "raised" /\ InOpenUnitInterval(call.percentage))
        => /\ members = pre.members
           /\ last_id = pre.last_id

====
